---- MODULE Spec2Model ----
(***************************************************************************)
(* The reserve/commit ring buffer of gxlb/ringbuffer, in its three         *)
(* revisions:                                                              *)
(*   "coarse"  ring_buffer.go      two wait lists, Broadcast               *)
(*   "fine"    unnamed/part_001    four wait lists, Broadcast              *)
(*   "signal"  unnamed/part_002    two wait lists, Signal                  *)
(* driven by the writer/reader workers of internal/bench/main.go.          *)
(* Every atomic operation, mutex operation and sync.Cond operation of the  *)
(* source is one step of the worker that executes it.  The diagnostics     *)
(* (rb.debug, rb.log, Show) read the cursors and change nothing the        *)
(* workers act on; they are left out.  The cursors are uint64 and start at *)
(* 0: within the runs explored here they stay far below 2^64, so the       *)
(* additions are written without the modulus.                              *)
(***************************************************************************)
EXTENDS Integers, Sequences, FiniteSets, TLC

\* ---------------------------------------------------------------- bounds
MaxSize == 2         \* largest rb.size tried (bufferSize of the harness)
MaxId == 0           \* maxId of the harness: a worker stops after an id > MaxId

\* ------------------------------------------------------------- the harness
\* workerCount of main.go (5; 10 in the older driver), scaled down: main starts
\* workerCount writer goroutines and workerCount reader goroutines
workerCount == 2

Writers == 1..workerCount
Readers == {workerCount + i : i \in 1..workerCount}
Workers == Writers \cup Readers

Variants == {"coarse", "fine", "signal"}

\* the sync.Cond fields of the three RingBuffer structs
Conds == {"waitReader", "waitWriter",
          "waitReadR", "waitWriteR", "waitReadC", "waitWriteC"}

NoWorker == 0

VARIABLES
    variant,     \* which revision of the package is running
    size,        \* rb.size
    wReserve,    \* rb.wReserve
    wCommit,     \* rb.wCommit
    rReserve,    \* rb.rReserve
    rCommit,     \* rb.rCommit
    pc,          \* position of each worker in its loop
    id,          \* the local id of each worker
    notify,      \* per sync.Cond: the goroutines in its notify list, oldest first
    mutex,       \* per sync.Cond: the holder of its L, or NoWorker
    wIds,        \* history: ids drawn by ReserveW, in the order of the atomic adds
    rIds,        \* history: ids drawn by ReserveR, in the order of the atomic adds
    wDone,       \* history: ids whose CommitW compare-and-swap succeeded, in order
    rDone,       \* history: ids whose CommitR compare-and-swap succeeded, in order
    call         \* a call made outside the workers' loops: NewRingBuffer,
                 \* BufferIndex, or a commit with an id the caller does not hold

cursors == <<wReserve, wCommit, rReserve, rCommit>>
history == <<wIds, rIds, wDone, rDone>>
vars == <<variant, size, wReserve, wCommit, rReserve, rCommit,
          pc, id, notify, mutex, wIds, rIds, wDone, rDone, call>>

\* -------------------------------------------------------- pure functions

\* BufferIndex: int(id % uint64(rb.size))
BufferIndex(i, sz) == i % sz

\* id = atomic.AddUint64(&cursor, 1) - 1, from the value the add returns
ReservedIdPostIncrement(new) == new
ReservedId(new) == new - 1

\* ReserveW: maxW := dataStart + uint64(rb.size); if id < maxW
WriteFitsInclusive(i, dataStart, sz) == i <= dataStart + sz
WriteFitsNeedsSpare(i, dataStart, sz) == i + 1 < dataStart + sz
WriteFits(i, dataStart, sz) == i < dataStart + sz

\* ReserveR: w := atomic.LoadUint64(&rb.wCommit); if id < w
ReadFitsInclusive(i, w) == i <= w
ReadFits(i, w) == i < w

\* atomic.CompareAndSwapUint64(&cursor, id, newId): whether it swaps
CASAlwaysSwaps(cur, old) == TRUE
CASSwaps(cur, old) == cur = old

\* newId := id + 1
NewIdSkips(i) == i + 2
NewId(i) == i + 1

\* the wait list a reserve call sleeps on
ReserveCond(v, p) ==
    IF p \in Writers
    THEN (IF v = "fine" THEN "waitWriteR" ELSE "waitWriter")
    ELSE (IF v = "fine" THEN "waitReadR" ELSE "waitReader")

\* the wait list a commit call sleeps on after a failed compare-and-swap
CommitCondByRole(v, p) == ReserveCond(v, p)
CommitCond(v, p) ==
    IF p \in Writers
    THEN (IF v = "fine" THEN "waitWriteC" ELSE "waitReader")
    ELSE (IF v = "fine" THEN "waitReadC" ELSE "waitWriter")

\* the wait lists a commit call wakes after a successful compare-and-swap
WakeConds(v, p) ==
    IF p \in Writers
    THEN (IF v = "fine" THEN <<"waitReadR", "waitWriteC">> ELSE <<"waitReader">>)
    ELSE (IF v = "fine" THEN <<"waitWriteR", "waitReadC">> ELSE <<"waitWriter">>)

\* Broadcast wakes the whole notify list, Signal its oldest entry
Woken(v, list) ==
    IF v = "signal"
    THEN (IF list = <<>> THEN {} ELSE {Head(list)})
    ELSE {list[k] : k \in 1..Len(list)}

Remaining(v, list) ==
    IF v = "signal"
    THEN (IF list = <<>> THEN <<>> ELSE Tail(list))
    ELSE <<>>

\* ------------------------------------------------------------------ init
\* no call outside the workers' loops
NoCall == [op |-> "none"]

\* the zero cursors, the workers before their first cycle, the fresh sync.Conds
Fresh ==
    /\ wReserve = 0 /\ wCommit = 0 /\ rReserve = 0 /\ rCommit = 0
    /\ pc = [p \in Workers |-> "reserve"]
    /\ id = [p \in Workers |-> 0]
    /\ notify = [c \in Conds |-> <<>>]
    /\ mutex = [c \in Conds |-> NoWorker]
    /\ wIds = <<>> /\ rIds = <<>> /\ wDone = <<>> /\ rDone = <<>>

Init ==
    /\ variant \in Variants
    /\ size \in 1..MaxSize
    /\ Fresh
    /\ call = NoCall

\* ------------------------------------------------- sync.Cond choreography
\* c.L.Lock() before Wait
CondLock(p, c, from, to) ==
    /\ pc[p] = from
    /\ mutex[c] = NoWorker
    /\ mutex' = [mutex EXCEPT ![c] = p]
    /\ pc' = [pc EXCEPT ![p] = to]
    /\ UNCHANGED <<call, variant, size, cursors, id, notify, history>>

\* c.Wait(): runtime_notifyListAdd, c.L.Unlock(), then park
CondWait(p, c, from, to) ==
    /\ pc[p] = from
    /\ notify' = [notify EXCEPT ![c] = Append(@, p)]
    /\ mutex' = [mutex EXCEPT ![c] = NoWorker]
    /\ pc' = [pc EXCEPT ![p] = to]
    /\ UNCHANGED <<call, variant, size, cursors, id, history>>

\* c.L.Unlock() after Wait has returned
CondUnlock(p, c, from, to) ==
    /\ pc[p] = from
    /\ mutex' = [mutex EXCEPT ![c] = NoWorker]
    /\ pc' = [pc EXCEPT ![p] = to]
    /\ UNCHANGED <<call, variant, size, cursors, id, notify, history>>

\* where a parked goroutine continues once it is notified: c.L.Lock() inside Wait
Resumed(at) == IF at = "rparked" THEN "rrelock" ELSE "crelock"

\* c.Broadcast() / c.Signal() by worker p, which then moves to `to`
CondWake(p, c, from, to) ==
    /\ pc[p] = from
    /\ LET woken == Woken(variant, notify[c]) IN
        /\ notify' = [notify EXCEPT ![c] = Remaining(variant, @)]
        /\ pc' = [q \in Workers |->
                    IF q = p THEN to
                    ELSE IF q \in woken THEN Resumed(pc[q])
                    ELSE pc[q]]
    /\ UNCHANGED <<call, variant, size, cursors, id, mutex, history>>

\* ------------------------------------------------------------ the harness
\* writer()/reader(): `if id > maxId { break }` after the commit has returned
AfterCommit(p) == IF id[p] > MaxId THEN "done" ELSE "reserve"

\* what a commit call does after its first wake: the second wake of the
\* four-list revision, or return to the worker's loop
AfterWake1(p) == IF Len(WakeConds(variant, p)) > 1 THEN "wake2" ELSE AfterCommit(p)

\* --------------------------------------------------------------- ReserveW
\* id = atomic.AddUint64(&rb.wReserve, 1) - 1
ReserveW_Add(p) ==
    /\ pc[p] = "reserve"
    /\ wReserve' = wReserve + 1
    /\ id' = [id EXCEPT ![p] = ReservedId(wReserve')]
    /\ wIds' = Append(wIds, id'[p])
    /\ pc' = [pc EXCEPT ![p] = "check"]
    /\ UNCHANGED <<call, variant, size, wCommit, rReserve, rCommit, notify, mutex,
                   rIds, wDone, rDone>>

\* dataStart := atomic.LoadUint64(&rb.rCommit); if id < dataStart + size { break }
ReserveW_Check(p) ==
    /\ pc[p] = "check"
    /\ pc' = [pc EXCEPT ![p] =
                IF WriteFits(id[p], rCommit, size) THEN "cas" ELSE "rlock"]
    /\ UNCHANGED <<call, variant, size, cursors, id, notify, mutex, history>>

ReserveW_Lock(p) == CondLock(p, ReserveCond(variant, p), "rlock", "rwait")
ReserveW_Wait(p) == CondWait(p, ReserveCond(variant, p), "rwait", "rparked")
ReserveW_Relock(p) == CondLock(p, ReserveCond(variant, p), "rrelock", "runlock")
ReserveW_Unlock(p) == CondUnlock(p, ReserveCond(variant, p), "runlock", "check")

\* ---------------------------------------------------------------- CommitW
\* if atomic.CompareAndSwapUint64(&rb.wCommit, id, newId)
CommitW_CAS(p) ==
    /\ pc[p] = "cas"
    /\ IF CASSwaps(wCommit, id[p])
       THEN /\ wCommit' = NewId(id[p])
            /\ wDone' = Append(wDone, id[p])
            /\ pc' = [pc EXCEPT ![p] = "wake1"]
       ELSE /\ pc' = [pc EXCEPT ![p] = "clock"]
            /\ UNCHANGED <<wCommit, wDone>>
    /\ UNCHANGED <<call, variant, size, wReserve, rReserve, rCommit, id, notify, mutex,
                   wIds, rIds, rDone>>

CommitW_Wake1(p) == CondWake(p, WakeConds(variant, p)[1], "wake1", AfterWake1(p))
CommitW_Wake2(p) == CondWake(p, WakeConds(variant, p)[2], "wake2", AfterCommit(p))
CommitW_Lock(p) == CondLock(p, CommitCond(variant, p), "clock", "cwait")
CommitW_Wait(p) == CondWait(p, CommitCond(variant, p), "cwait", "cparked")
CommitW_Relock(p) == CondLock(p, CommitCond(variant, p), "crelock", "cunlock")
CommitW_Unlock(p) == CondUnlock(p, CommitCond(variant, p), "cunlock", "cas")

\* --------------------------------------------------------------- ReserveR
\* id = atomic.AddUint64(&rb.rReserve, 1) - 1
ReserveR_Add(p) ==
    /\ pc[p] = "reserve"
    /\ rReserve' = rReserve + 1
    /\ id' = [id EXCEPT ![p] = ReservedId(rReserve')]
    /\ rIds' = Append(rIds, id'[p])
    /\ pc' = [pc EXCEPT ![p] = "check"]
    /\ UNCHANGED <<call, variant, size, wReserve, wCommit, rCommit, notify, mutex,
                   wIds, wDone, rDone>>

\* w := atomic.LoadUint64(&rb.wCommit); if id < w { break }
ReserveR_Check(p) ==
    /\ pc[p] = "check"
    /\ pc' = [pc EXCEPT ![p] = IF ReadFits(id[p], wCommit) THEN "cas" ELSE "rlock"]
    /\ UNCHANGED <<call, variant, size, cursors, id, notify, mutex, history>>

ReserveR_Lock(p) == CondLock(p, ReserveCond(variant, p), "rlock", "rwait")
ReserveR_Wait(p) == CondWait(p, ReserveCond(variant, p), "rwait", "rparked")
ReserveR_Relock(p) == CondLock(p, ReserveCond(variant, p), "rrelock", "runlock")
ReserveR_Unlock(p) == CondUnlock(p, ReserveCond(variant, p), "runlock", "check")

\* ---------------------------------------------------------------- CommitR
\* if atomic.CompareAndSwapUint64(&rb.rCommit, id, newId)
CommitR_CAS(p) ==
    /\ pc[p] = "cas"
    /\ IF CASSwaps(rCommit, id[p])
       THEN /\ rCommit' = NewId(id[p])
            /\ rDone' = Append(rDone, id[p])
            /\ pc' = [pc EXCEPT ![p] = "wake1"]
       ELSE /\ pc' = [pc EXCEPT ![p] = "clock"]
            /\ UNCHANGED <<rCommit, rDone>>
    /\ UNCHANGED <<call, variant, size, wReserve, wCommit, rReserve, id, notify, mutex,
                   wIds, rIds, wDone>>

CommitR_Wake1(p) == CondWake(p, WakeConds(variant, p)[1], "wake1", AfterWake1(p))
CommitR_Wake2(p) == CondWake(p, WakeConds(variant, p)[2], "wake2", AfterCommit(p))
CommitR_Lock(p) == CondLock(p, CommitCond(variant, p), "clock", "cwait")
CommitR_Wait(p) == CondWait(p, CommitCond(variant, p), "cwait", "cparked")
CommitR_Relock(p) == CondLock(p, CommitCond(variant, p), "crelock", "cunlock")
CommitR_Unlock(p) == CondUnlock(p, CommitCond(variant, p), "cunlock", "cas")

\* ------------------------------------------------------------------- next
writer(p) ==
    \/ ReserveW_Add(p) \/ ReserveW_Check(p)
    \/ ReserveW_Lock(p) \/ ReserveW_Wait(p) \/ ReserveW_Relock(p) \/ ReserveW_Unlock(p)
    \/ CommitW_CAS(p) \/ CommitW_Wake1(p) \/ CommitW_Wake2(p)
    \/ CommitW_Lock(p) \/ CommitW_Wait(p) \/ CommitW_Relock(p) \/ CommitW_Unlock(p)

reader(p) ==
    \/ ReserveR_Add(p) \/ ReserveR_Check(p)
    \/ ReserveR_Lock(p) \/ ReserveR_Wait(p) \/ ReserveR_Relock(p) \/ ReserveR_Unlock(p)
    \/ CommitR_CAS(p) \/ CommitR_Wake1(p) \/ CommitR_Wake2(p)
    \/ CommitR_Lock(p) \/ CommitR_Wait(p) \/ CommitR_Relock(p) \/ CommitR_Unlock(p)

Next ==
    \/ \E p \in Writers : writer(p)
    \/ \E p \in Readers : reader(p)

Spec == Init /\ [][Next]_vars

\* ------------------------------------------------------ reading the state
\* inside ReserveW/ReserveR: the id is drawn, the call has not returned
InReserve(p) == pc[p] \in {"check", "rlock", "rwait", "rparked", "rrelock", "runlock"}

\* the reserve call has returned id[p] and the commit's compare-and-swap has
\* not yet succeeded: the worker owns slot BufferIndex(id[p])
Holding(p) == pc[p] \in {"cas", "clock", "cwait", "cparked", "crelock", "cunlock"}

\* the commit's compare-and-swap has succeeded, its wakes are being issued
InWake(p) == pc[p] \in {"wake1", "wake2"}

\* the reserve call has returned id[p]
Granted(p) == Holding(p) \/ InWake(p)

Parked(p) == pc[p] \in {"rparked", "cparked"}

Range(s) == {s[k] : k \in 1..Len(s)}

\* s is <<0, 1, ..., Len(s) - 1>>
CountsUp(s) == \A k \in 1..Len(s) : s[k] = k - 1

\* ---------------------------------------------------------------- claims

\* C1: the ids drawn by N ReserveW calls, whatever their interleaving, are
\* exactly {0, ..., N-1}, none twice and none skipped, and no two calls in
\* progress hold the same id; the same for ReserveR.
C1_IdsExactlyZeroToN ==
    /\ Range(wIds) = 0..(Len(wIds) - 1)
    /\ Cardinality(Range(wIds)) = Len(wIds)
    /\ Range(rIds) = 0..(Len(rIds) - 1)
    /\ Cardinality(Range(rIds)) = Len(rIds)
    /\ \A p, q \in Writers :
          (p # q /\ pc[p] \notin {"reserve", "done"} /\ pc[q] \notin {"reserve", "done"})
            => id[p] # id[q]
    /\ \A p, q \in Readers :
          (p # q /\ pc[p] \notin {"reserve", "done"} /\ pc[q] \notin {"reserve", "done"})
            => id[p] # id[q]

C1_Witness ==
    /\ \E p, q \in Writers : p # q /\ InReserve(p) /\ InReserve(q)
    /\ \E p, q \in Readers : p # q /\ InReserve(p) /\ InReserve(q)
    /\ Len(wIds) = MaxId + 1 + workerCount
    /\ Len(rIds) >= 2

\* C2: wCommit (rCommit) changes only by the step id -> id+1 taken by the
\* compare-and-swap of CommitW(id) (CommitR(id)); so the commits succeed in
\* the order 0, 1, 2, ... and the cursor counts them.
C2_CommitStep ==
    /\ (wCommit' # wCommit =>
          \E p \in Writers : /\ pc[p] = "cas" /\ pc'[p] = "wake1"
                             /\ id[p] = wCommit /\ wCommit' = id[p] + 1)
    /\ (rCommit' # rCommit =>
          \E p \in Readers : /\ pc[p] = "cas" /\ pc'[p] = "wake1"
                             /\ id[p] = rCommit /\ rCommit' = id[p] + 1)

C2_CommitsInReservationOrder ==
    /\ [](CountsUp(wDone) /\ Len(wDone) = wCommit)
    /\ [](CountsUp(rDone) /\ Len(rDone) = rCommit)
    /\ [][C2_CommitStep]_vars

\* the writer of id 1 tried first and waits; the writer of id 0 has just committed
C2_Witness ==
    \E p, q \in Writers :
        /\ id[p] = 1 /\ pc[p] \in {"clock", "cwait", "cparked"}
        /\ id[q] = 0 /\ pc[q] = "wake1" /\ wCommit = 1

\* C3: whenever ReserveR has returned id, the compare-and-swap of CommitW(id)
\* has succeeded and wCommit > id.
C3_ReadAfterWriteCommit ==
    \A p \in Readers : Granted(p) => (id[p] < wCommit /\ id[p] \in Range(wDone))

\* one reader has been let through while another still sleeps for data
C3_Witness ==
    \E p, q \in Readers :
        /\ pc[p] = "cas" /\ id[p] = wCommit - 1
        /\ pc[q] = "rparked" /\ id[q] >= wCommit

\* C4: every write id that ReserveW has returned satisfies id - rCommit < size.
C4_GrantedWithinCapacity ==
    \A p \in Writers : Granted(p) => id[p] - rCommit < size

\* size 1: the writer of id 0 has not committed, the writer of id 1 is kept waiting
C4_Witness ==
    /\ size = 1 /\ rCommit = 0
    /\ \E p, q \in Writers :
        /\ id[p] = 0 /\ pc[p] = "cas"
        /\ id[q] = 1 /\ pc[q] = "rparked"

\* C5: a writer that owns id w shares its slot with no sequence number
\* u < w that is not yet read-committed, and with no id a reader owns.
C5_NoOverwriteOfUnread ==
    \A p \in Writers : Holding(p) =>
        /\ \A u \in rCommit..(id[p] - 1) :
              BufferIndex(u, size) # BufferIndex(id[p], size)
        /\ \A q \in Readers : Holding(q) =>
              BufferIndex(id[q], size) # BufferIndex(id[p], size)

\* a writer owns a slot for the second time while a reader owns another slot
C5_Witness ==
    \E p \in Writers, q \in Readers :
        Holding(p) /\ Holding(q) /\ id[p] >= size /\ id[q] >= rCommit

\* C6 as stated: readCommit <= readReserve <= writeCommit <= writeReserve in
\* every reachable state.
C6_CursorChainAsStated ==
    /\ rCommit <= rReserve
    /\ rReserve <= wCommit
    /\ wCommit <= wReserve

\* C6, amended: readCommit <= readReserve and readCommit <= writeCommit <=
\* writeReserve; readReserve exceeds writeCommit by no more than the number of
\* ReserveR calls that have drawn an id and not yet returned.
C6_CursorOrder ==
    /\ rCommit <= rReserve
    /\ rCommit <= wCommit
    /\ wCommit <= wReserve
    /\ rReserve - Cardinality({p \in Readers : InReserve(p)}) <= wCommit

\* readers have drawn ids beyond writeCommit and sleep; the cursors have moved
C6_Witness ==
    /\ rReserve > wCommit /\ wCommit > rCommit /\ rCommit > 0
    /\ \E p \in Readers : pc[p] = "rparked"

\* C7 as stated: writeReserve - readCommit <= capacity in every reachable
\* state, also while writers are blocked inside ReserveW.
C7_ReserveBoundAsStated == wReserve - rCommit <= size

\* C7, amended: writeReserve - readCommit exceeds the capacity by no more than
\* the number of ReserveW calls that have drawn an id and not yet returned.
C7_ReserveBound ==
    wReserve - rCommit <= size + Cardinality({p \in Writers : InReserve(p)})

\* a writer sleeps inside ReserveW with writeReserve beyond readCommit + size
C7_Witness ==
    /\ wReserve - rCommit > size /\ rCommit > 0
    /\ \E p \in Writers : pc[p] = "rparked" /\ ~WriteFits(id[p], rCommit, size)

\* C8: no reachable state has unfinished workers that are all suspended: as
\* long as a worker is unfinished, some unfinished worker is not parked in Wait
\* (a parked worker is resumed only by a wake of another worker).
C8_NoPermanentDeadlock ==
    (\E p \in Workers : pc[p] # "done")
        => (\E p \in Workers : pc[p] # "done" /\ ~Parked(p))

\* the condition a parked worker waits for
WaitConditionHolds(p) ==
    IF pc[p] = "rparked"
    THEN (IF p \in Writers THEN WriteFits(id[p], rCommit, size)
                           ELSE ReadFits(id[p], wCommit))
    ELSE (IF p \in Writers THEN CASSwaps(wCommit, id[p])
                           ELSE CASSwaps(rCommit, id[p]))

\* C9: no wakeup is lost: no worker is left parked in Wait with its condition
\* true while no other worker can run to wake it.
C9_NoLostWakeup ==
    \A p \in Workers :
        (Parked(p) /\ WaitConditionHolds(p))
            => (\E q \in Workers : pc[q] # "done" /\ ~Parked(q))

\* no reserve or commit call is in progress
Quiescent == \A p \in Workers : pc[p] \in {"reserve", "done"}

\* C10: when N write cycles and N read cycles have completed and no call is
\* in progress, wReserve = wCommit = rReserve = rCommit = N; when all workers
\* of the harness have left their loops, N = MaxId + 1 + workerCount.
C10_FinalCursors ==
    /\ (Quiescent /\ Len(wDone) = Len(rDone)) =>
          /\ wReserve = Len(wDone) /\ wCommit = Len(wDone)
          /\ rReserve = Len(wDone) /\ rCommit = Len(wDone)
    /\ (\A p \in Workers : pc[p] = "done") => wCommit = MaxId + 1 + workerCount

C10_Witness ==
    /\ \A p \in Workers : pc[p] = "done"
    /\ Len(wDone) = MaxId + 1 + workerCount
    /\ Len(rDone) = MaxId + 1 + workerCount

\* ================================================================ C11
\* ----------------------------------------------------------- construction
\* const need_cpus = 4
need_cpus == 4

\* largest runtime.GOMAXPROCS(0) tried
MaxProcs == 5

\* ids passed to BufferIndex on the constructed buffer
MaxIndexArg == 2

\* NewRingBuffer(size) is called: p := &RingBuffer{} has size 0 and nil Conds
NewInit ==
    /\ variant \in Variants
    /\ size = 0
    /\ Fresh
    /\ call \in [op : {"NewRingBuffer"}, arg : (0 - MaxSize)..MaxSize,
                 procs : 1..MaxProcs, at : {"init"}, err : {FALSE},
                 conds : {FALSE}, result : {"none"}, use : {<<>>}]

\* rb.init(size): the two checks, then rb.size and the sync.Conds
RingBuffer_init ==
    /\ call.op = "NewRingBuffer" /\ call.at = "init"
    /\ IF call.procs < need_cpus \/ call.arg <= 0
       THEN /\ call' = [call EXCEPT !.at = "return", !.err = TRUE]
            /\ UNCHANGED size
       ELSE /\ call' = [call EXCEPT !.at = "return", !.conds = TRUE]
            /\ size' = call.arg
    /\ UNCHANGED <<variant, cursors, pc, id, notify, mutex, history>>

\* p.init(size); return p: the error init returned is dropped
NewRingBuffer_Return ==
    /\ call.op = "NewRingBuffer" /\ call.at = "return"
    /\ call' = [call EXCEPT !.at = "returned", !.result = "instance"]
    /\ UNCHANGED <<variant, size, cursors, pc, id, notify, mutex, history>>

\* rb.Size() on the returned buffer
Size_Call ==
    /\ call.op = "NewRingBuffer" /\ call.at = "returned"
    /\ call.result = "instance"
    /\ call' = [call EXCEPT !.at = "used", !.use = <<"Size", size>>]
    /\ UNCHANGED <<variant, size, cursors, pc, id, notify, mutex, history>>

\* rb.BufferIndex(i) on the returned buffer: id % 0 panics
BufferIndex_Call ==
    /\ call.op = "NewRingBuffer" /\ call.at = "returned"
    /\ call.result = "instance"
    /\ \E i \in 0..MaxIndexArg :
          call' = [call EXCEPT !.at = "used",
                      !.use = <<"BufferIndex", i,
                                IF size = 0 THEN "panic: integer divide by zero"
                                ELSE BufferIndex(i, size)>>]
    /\ UNCHANGED <<variant, size, cursors, pc, id, notify, mutex, history>>

NewNext == RingBuffer_init \/ NewRingBuffer_Return \/ Size_Call \/ BufferIndex_Call

SpecNew == NewInit /\ [][NewNext]_vars

\* C11: construction with a non-positive capacity, or with fewer than
\* need_cpus execution units, returns an error and no instance, so that no
\* operation runs on a buffer whose capacity is <= 0.
C11_BadConstructionFails ==
    /\ (call.at \in {"returned", "used"} /\ (call.arg <= 0 \/ call.procs < need_cpus))
          => call.result = "error"
    /\ call.at = "used" => size > 0

\* ================================================================ C12
\* ------------------------------------------- a caller that never commits
\* the reserve call of worker p returns its id (the check of ReserveW /
\* ReserveR succeeds) and p never calls the matching commit
Abandon(p) ==
    /\ pc[p] = "check"
    /\ IF p \in Writers THEN WriteFits(id[p], rCommit, size)
                        ELSE ReadFits(id[p], wCommit)
    /\ pc' = [pc EXCEPT ![p] = "abandoned"]
    /\ UNCHANGED <<call, variant, size, cursors, id, notify, mutex, history>>

Abandoned(p) == pc[p] = "abandoned"

StallNext ==
    \/ \E p \in Writers : writer(p)
    \/ \E p \in Readers : reader(p)
    \/ \E p \in Workers : Abandon(p)

SpecStall == Init /\ [][StallNext]_vars

\* C12: while a writer holds a granted id it never commits, wCommit does not
\* exceed that id, no CommitW of a larger id succeeds or returns, and no
\* ReserveR that drew that id or a larger one returns; while a reader holds a
\* granted id it never commits, rCommit does not exceed that id, no CommitR
\* of a larger id succeeds, and no ReserveW that drew an id >= id + size returns.
C12_UncommittedReservationBlocks ==
    /\ \A p \in Writers : Abandoned(p) =>
          /\ wCommit <= id[p]
          /\ \A j \in Range(wDone) : j < id[p]
          /\ \A q \in Writers : InWake(q) => id[q] < id[p]
          /\ \A r \in Readers : (Granted(r) \/ Abandoned(r)) => id[r] < id[p]
    /\ \A p \in Readers : Abandoned(p) =>
          /\ rCommit <= id[p]
          /\ \A j \in Range(rDone) : j < id[p]
          /\ \A q \in Readers : InWake(q) => id[q] < id[p]
          /\ \A w \in Writers : (Granted(w) \/ Abandoned(w)) => id[w] < id[p] + size

\* a writer keeps id 0 uncommitted: the writer of id 1 sleeps in CommitW and
\* a reader sleeps in ReserveR; a reader keeps an id uncommitted and a writer
\* sleeps in ReserveW for the slot
C12_Witness ==
    \/ \E p, q \in Writers, r \in Readers :
          /\ Abandoned(p) /\ pc[q] = "cparked" /\ id[q] > id[p]
          /\ pc[r] = "rparked" /\ id[r] >= id[p]
    \/ \E p \in Readers, w \in Writers :
          /\ Abandoned(p) /\ pc[w] = "rparked" /\ id[w] >= id[p] + size
          /\ wCommit > 0

\* ================================================================ C13
\* --------------------------------------------- a caller that breaks the protocol
MaxMisuseId == 2

\* between two iterations of its loop, worker p calls the commit operation of
\* its side with a sequence number x that its reserve call did not just
\* return: x is p's last committed id (a second commit of it), or an id p
\* never reserved.  The call runs the code of CommitW / CommitR; `call`
\* records it with the value the commit cursor had when it was made.
Misuse(p, x) ==
    /\ call = NoCall
    /\ pc[p] = "reserve"
    /\ id' = [id EXCEPT ![p] = x]
    /\ pc' = [pc EXCEPT ![p] = "cas"]
    /\ call' = [op  |-> IF p \in Writers THEN "CommitW" ELSE "CommitR",
                who |-> p, id |-> x,
                at  |-> IF p \in Writers THEN wCommit ELSE rCommit]
    /\ UNCHANGED <<variant, size, cursors, notify, mutex, history>>

MisuseNext ==
    \/ \E p \in Writers : writer(p)
    \/ \E p \in Readers : reader(p)
    \/ \E p \in Workers, x \in 0..MaxMisuseId : Misuse(p, x)

SpecMisuse == Init /\ [][MisuseNext]_vars

\* the commit cursor of worker p's side
CommitCursor(p) == IF p \in Writers THEN wCommit ELSE rCommit

WordBits == 4
MaxCapacity == 3
MaxK == 2

WordMod == 2 ^ WordBits

\* unsigned addition and multiplication of the word: s + k * c, wrapped
WrapAdd(s, k, c) == (s + k * c) % WordMod

IndexInit ==
    /\ variant \in Variants
    /\ size \in 1..MaxCapacity
    /\ Fresh
    /\ call \in [op : {"BufferIndex"}, s : 0..(WordMod - 1), k : 0..MaxK,
                 at : {"first"}, r1 : {0 - 1}, r2 : {0 - 1}]

\* rb.BufferIndex(s)
BufferIndex_First ==
    /\ call.op = "BufferIndex" /\ call.at = "first"
    /\ call' = [call EXCEPT !.at = "second", !.r1 = BufferIndex(call.s, size)]
    /\ UNCHANGED <<variant, size, cursors, pc, id, notify, mutex, history>>

\* rb.BufferIndex(s + k * size), the argument computed in uint64
BufferIndex_Second ==
    /\ call.op = "BufferIndex" /\ call.at = "second"
    /\ call' = [call EXCEPT !.at = "done",
                            !.r2 = BufferIndex(WrapAdd(call.s, call.k, size), size)]
    /\ UNCHANGED <<variant, size, cursors, pc, id, notify, mutex, history>>

IndexNext == BufferIndex_First \/ BufferIndex_Second

SpecIndex == IndexInit /\ [][IndexNext]_vars

\* C14: for every capacity, every sequence number s of the word and every
\* k >= 0, BufferIndex(s) = BufferIndex(s + k * capacity), the sum taken in
\* the word's wrapping arithmetic.
C14_IndexPeriodic ==
    call.at = "done" => call.r1 = call.r2

\* ================================================================ C15
\* the worker is on the slow path of a call: between a failed check (or a
\* failed compare-and-swap) and the retry after Wait
Suspending(p) == pc[p] \in {"rlock", "rwait", "rparked", "rrelock", "runlock",
                            "clock", "cwait", "cparked", "crelock", "cunlock"}

\* every worker but p is between two calls
Alone(p) == \A q \in Workers \ {p} : pc[q] \in {"reserve", "done"}

\* the state of a single caller repeating ReserveW, CommitW, ReserveR,
\* CommitR, inside the writing half (p a writer) or the reading half (p a
\* reader) of round id[p]: all earlier rounds are complete
Sequential(p) ==
    /\ Alone(p)
    /\ id[p] = rCommit
    /\ wReserve = rCommit + 1
    /\ wCommit = rCommit + (IF p \in Readers THEN 1 ELSE 0)
    /\ rReserve = rCommit + (IF p \in Readers THEN 1 ELSE 0)

\* the single caller: one call at a time, in the order of the protocol.  The
\* step relation is the whole code of the four operations, slow paths
\* included.
SingleTurn(p) ==
    pc[p] = "reserve" =>
        IF p \in Writers THEN wCommit = rCommit ELSE rCommit < wCommit

SingleNext ==
    \E p \in Workers :
        /\ Alone(p)
        /\ SingleTurn(p)
        /\ \/ p \in Writers /\ writer(p)
           \/ p \in Readers /\ reader(p)

SpecSingle == Init /\ [][SingleNext]_vars

\* under SpecSingle no call ever enters its slow path
SingleCallerNeverSuspends == \A p \in Workers : ~Suspending(p)

\* C15: a ReserveW check with id < rCommit + size, a ReserveR check with
\* id < wCommit and a commit compare-and-swap with cursor = id go on to the
\* return of the call, never to a Wait, and the wakes after a successful
\* compare-and-swap never suspend; for any size >= 1 the checks and
\* compare-and-swaps of a single caller that repeats ReserveW, CommitW,
\* ReserveR, CommitR never lead to a Wait.
C15_NoFalseBlocking ==
    [][ \A p \in Workers :
          /\ (p \in Writers /\ pc[p] = "check" /\ id[p] < rCommit + size)
                => pc'[p] \in {"check", "cas"}
          /\ (p \in Readers /\ pc[p] = "check" /\ id[p] < wCommit)
                => pc'[p] \in {"check", "cas"}
          /\ (pc[p] = "cas" /\ CommitCursor(p) = id[p])
                => pc'[p] \in {"cas", "wake1"}
          /\ InWake(p) => ~Suspending(p)'
          /\ (Sequential(p) /\ pc[p] \in {"check", "cas"}) => ~Suspending(p)' ]_vars

\* second round of a single caller on a buffer of one slot: the whole buffer
\* was written and read, and the writer's check has passed without a Wait
C15_Witness ==
    \E p \in Writers :
        /\ Sequential(p) /\ pc[p] = "cas"
        /\ id[p] = 1 /\ size = 1
        /\ \A q \in Workers : ~Suspending(q)

\* ================================================================ C17
\* the workers of p's side, and of the other side
SameSide(p) == IF p \in Writers THEN Writers ELSE Readers
OtherSide(p) == IF p \in Writers THEN Readers ELSE Writers

\* the wake of a commit call that reaches the reserve calls of the other
\* side, and the one that reaches the commit calls of its own side
ReserveWakeAt(v) == "wake1"
CommitWakeAt(v) == IF v = "fine" THEN "wake2" ELSE "wake1"

\* C17: every wake of a successful commit is a broadcast: the wake of a
\* CommitW resumes every caller sleeping in ReserveR and every caller
\* sleeping in CommitW, the wake of a CommitR every caller sleeping in
\* ReserveW and every caller sleeping in CommitR; none stays asleep.
C17_EveryWakeIsBroadcast ==
    [][ \A p \in Workers :
          /\ (pc[p] = ReserveWakeAt(variant) /\ pc'[p] # pc[p])
                => \A q \in OtherSide(p) : pc[q] = "rparked" => pc'[q] # "rparked"
          /\ (pc[p] = CommitWakeAt(variant) /\ pc'[p] # pc[p])
                => \A q \in SameSide(p) : pc[q] = "cparked" => pc'[q] # "cparked" ]_vars

\* ================================================================ C18
\* C18: the capacity never changes; a reserve cursor changes only by the one
\* increment at the entry of a reserve call of its side, which changes no
\* other cursor; a commit cursor changes only at a compare-and-swap of its
\* side that finds cursor = id, from id to id + 1, which changes no other
\* cursor; the retry after a wait goes back to the check (or the
\* compare-and-swap), never to the increment, and a commit call does not swap
\* again after its swap; so failed checks, failed swaps, waits and wakes
\* leave the four cursors unchanged.
C18_CursorFrame ==
    [][ /\ size' = size
        /\ wReserve' # wReserve =>
              /\ \E p \in Writers : pc[p] = "reserve" /\ pc'[p] = "check"
              /\ wReserve' = wReserve + 1
              /\ <<wCommit, rReserve, rCommit>>' = <<wCommit, rReserve, rCommit>>
        /\ rReserve' # rReserve =>
              /\ \E p \in Readers : pc[p] = "reserve" /\ pc'[p] = "check"
              /\ rReserve' = rReserve + 1
              /\ <<wReserve, wCommit, rCommit>>' = <<wReserve, wCommit, rCommit>>
        /\ wCommit' # wCommit =>
              /\ \E p \in Writers : /\ pc[p] = "cas" /\ pc'[p] = "wake1"
                                    /\ wCommit = id[p] /\ wCommit' = id[p] + 1
              /\ <<wReserve, rReserve, rCommit>>' = <<wReserve, rReserve, rCommit>>
        /\ rCommit' # rCommit =>
              /\ \E p \in Readers : /\ pc[p] = "cas" /\ pc'[p] = "wake1"
                                    /\ rCommit = id[p] /\ rCommit' = id[p] + 1
              /\ <<wReserve, wCommit, rReserve>>' = <<wReserve, wCommit, rReserve>>
        /\ \A p \in Workers :
              /\ (pc[p] = "check" /\ pc'[p] = "rlock") => cursors' = cursors
              /\ (pc[p] = "cas" /\ pc'[p] = "clock") => cursors' = cursors
              /\ (Suspending(p) /\ pc'[p] # pc[p]) => cursors' = cursors
              /\ InReserve(p) => (InReserve(p)' \/ pc'[p] = "cas")
              /\ InWake(p) => pc'[p] \in {"wake1", "wake2", "reserve", "done"} ]_vars

\* a reserve call and a commit call have both slept and been woken, and are
\* about to retry
C18_Witness ==
    \E p, q \in Workers :
        /\ pc[p] = "runlock" /\ pc[q] = "cunlock"
        /\ wReserve > 1 /\ wCommit > 0

\* ================================================================ C19
\* C19: the number of committed items not yet read stays within the buffer:
\* 0 <= wCommit - rCommit <= size in every reachable state.
C19_BacklogWithinCapacity ==
    /\ 0 <= wCommit - rCommit
    /\ wCommit - rCommit <= size

\* the buffer is full of committed, unread items after a first round of reads
C19_Witness ==
    /\ size = 2
    /\ rCommit > 0
    /\ wCommit - rCommit = size

\* ================================================================ C20
\* the workers sleeping on wait list c
Sleepers(c) == Range(notify[c])

\* C20 as stated: in the two-list revisions a writer asleep in CommitW is on
\* the list a writer asleep in ReserveW is on, and a reader asleep in CommitR
\* is on the list a reader asleep in ReserveR is on.
C20_WaitsShareChannelByRole ==
    variant # "fine" =>
        \A p \in Workers : Parked(p) => p \in Sleepers(ReserveCond(variant, p))

\* C20 amended: in the two-list revisions the lists are shared by waker, not
\* by role: waitWriter holds the writers asleep in ReserveW and the readers
\* asleep in CommitR (both woken by CommitR), waitReader holds the readers
\* asleep in ReserveR and the writers asleep in CommitW (both woken by
\* CommitW), and nobody else.
C20_WaitsShareChannelByWaker ==
    variant # "fine" =>
        /\ Sleepers("waitWriter") =
              {p \in Writers : pc[p] = "rparked"} \cup {p \in Readers : pc[p] = "cparked"}
        /\ Sleepers("waitReader") =
              {p \in Readers : pc[p] = "rparked"} \cup {p \in Writers : pc[p] = "cparked"}

\* a reader asleep in ReserveR and a writer asleep in CommitW, on one list
C20_Witness ==
    /\ variant = "coarse"
    /\ \E r \in Readers, w \in Writers :
          /\ pc[r] = "rparked" /\ pc[w] = "cparked"
          /\ {r, w} \subseteq Sleepers("waitReader")

====
